---- MODULE Spec2Model ----
(***************************************************************************)
(* Model of mappificator's lexical scanner (AbstractParser), its type      *)
(* descriptor codec, and the proguard mapping parser parse_official with   *)
(* validate_official.                                                       *)
(*                                                                         *)
(* A Python str is a sequence of one-character strings.  The scanner's     *)
(* pointer is 0-based as in the source: text[pointer] is text[pointer+1]   *)
(* here.  A Python dict is a sequence of <<key, value>> pairs in insertion *)
(* order.                                                                  *)
(***************************************************************************)
EXTENDS Integers, Sequences, FiniteSets, TLC

VARIABLES
    text,           \* AbstractParser.text
    pointer,        \* AbstractParser.pointer
    pc,             \* position in parse_official / in scan_until's loop
    doc,            \* the document handed to parse_official, as its lines
    classes,        \* sources.classes
    fields,         \* sources.fields
    temp_methods,   \* parse_official's staged method records
    methods,        \* sources.methods
    outcome,        \* how parse_official / the last scanner call ended
    call,           \* the last scanner or codec call: name, arguments, pointer before
    ret,            \* what that call returned
    identifier,     \* scan_until's local accumulator
    notch_class,    \* parse_official's local: the class whose members are being read
    client,         \* validate_official's first argument (its key sets)
    server,         \* validate_official's second argument (its key sets)
    verdict         \* how validate_official ended

vars == <<text, pointer, pc, doc, classes, fields, temp_methods, methods,
          outcome, call, ret, identifier, notch_class, client, server, verdict>>

----------------------------------------------------------------------------
(* Bounds of the model *)

MaxLines == 4
MaxDrop == 12
MaxLen == 3
MaxDims == 2

----------------------------------------------------------------------------
(* Python values *)

\* Python's None, as returned by a function that falls off its end
None == <<"None">>

NoExc == [kind |-> "none", line |-> 0]

Exc(kind, line) == [kind |-> kind, line |-> line]

Min(a, b) == IF a < b THEN a ELSE b

Max(a, b) == IF a > b THEN a ELSE b

\* s[a:b] of Python, for 0 <= a
Slice(s, a, b) == SubSeq(s, a + 1, Min(b, Len(s)))

RECURSIVE Count(_, _)
Count(s, c) ==
    IF s = <<>> THEN 0
    ELSE (IF Head(s) = c THEN 1 ELSE 0) + Count(Tail(s), c)

RECURSIVE Concat(_)
Concat(ss) == IF ss = <<>> THEN <<>> ELSE Head(ss) \o Concat(Tail(ss))

RECURSIVE Repeat(_, _)
Repeat(s, n) == IF n = 0 THEN <<>> ELSE s \o Repeat(s, n - 1)

\* str.replace('.', '/')
ReplaceDots(s) == [i \in 1..Len(s) |-> IF s[i] = "." THEN "/" ELSE s[i]]

\* str.split(sep) for a one-character separator: the list of pieces
RECURSIVE Split(_, _)
Split(s, sep) ==
    IF s = <<>> THEN << <<>> >>
    ELSE LET rest == Split(Tail(s), sep) IN
         IF Head(s) = sep THEN << <<>> >> \o rest
         ELSE << <<Head(s)>> \o Head(rest) >> \o Tail(rest)

\* dict: k in d
RECURSIVE HasKey(_, _)
HasKey(d, k) == d # <<>> /\ (Head(d)[1] = k \/ HasKey(Tail(d), k))

\* dict: d[k], for k in d
RECURSIVE Get(_, _)
Get(d, k) == IF Head(d)[1] = k THEN Head(d)[2] ELSE Get(Tail(d), k)

\* dict: d[k] = v (an existing key keeps its place)
Put(d, k, v) ==
    IF HasKey(d, k)
    THEN [i \in 1..Len(d) |-> IF d[i][1] = k THEN <<k, v>> ELSE d[i]]
    ELSE Append(d, <<k, v>>)

\* dict(pairs): built by inserting the pairs in order
RECURSIVE DictOf(_)
DictOf(pairs) ==
    IF pairs = <<>> THEN <<>>
    ELSE LET n == Len(pairs) IN
         Put(DictOf(SubSeq(pairs, 1, n - 1)), pairs[n][1], pairs[n][2])

Keys(d) == {d[i][1] : i \in 1..Len(d)}

Items(d) == {d[i] : i \in 1..Len(d)}

----------------------------------------------------------------------------
(* AbstractParser: class attributes *)

IDENTIFIER_CHARS ==
    {"A","B","C","D","E","F","G","H","I","J","K","L","M","N","O","P","Q","R",
     "S","T","U","V","W","X","Y","Z","a","b","c","d","e","f","g","h","i","j",
     "k","l","m","n","o","p","q","r","s","t","u","v","w","x","y","z","0","1",
     "2","3","4","5","6","7","8","9","/","-","_","$",";","(",")","[","]","<",
     ">",".",","}

NUMERIC_CHARS == {"0","1","2","3","4","5","6","7","8","9"}

FIELD_DESCRIPTOR_NAMES ==
    << << <<"b","y","t","e">>, <<"B">> >>,
       << <<"c","h","a","r">>, <<"C">> >>,
       << <<"d","o","u","b","l","e">>, <<"D">> >>,
       << <<"f","l","o","a","t">>, <<"F">> >>,
       << <<"i","n","t">>, <<"I">> >>,
       << <<"l","o","n","g">>, <<"J">> >>,
       << <<"s","h","o","r","t">>, <<"S">> >>,
       << <<"b","o","o","l","e","a","n">>, <<"Z">> >>,
       << <<"v","o","i","d">>, <<"V">> >> >>

FIELD_DESCRIPTOR_NAMES_INVERSE ==
    DictOf([i \in 1..Len(FIELD_DESCRIPTOR_NAMES) |->
              <<FIELD_DESCRIPTOR_NAMES[i][2], FIELD_DESCRIPTOR_NAMES[i][1]>>])

----------------------------------------------------------------------------
(* AbstractParser: scanner operations on (text t, pointer p).  Each yields *)
(* the new pointer p, the returned value ret and the exception exc raised. *)

eof(t, p) == p >= Len(t)

\* next(): text[pointer]; raises IndexError at the end of the text
next(t, p) ==
    IF p < Len(t) THEN [p |-> p, ret |-> t[p + 1], exc |-> NoExc]
    ELSE [p |-> p, ret |-> None, exc |-> Exc("IndexError", 0)]

\* try_scan that moves the pointer before it compares, and leaves it there
try_scan_advances_on_mismatch(t, p, expected) ==
    LET size == Len(expected) IN
    IF p + size > Len(t) THEN [p |-> p, ret |-> FALSE, exc |-> NoExc]
    ELSE [p |-> p + size, ret |-> Slice(t, p, p + size) = expected, exc |-> NoExc]

try_scan(t, p, expected) ==
    LET size == Len(expected) IN
    IF p + size > Len(t) THEN [p |-> p, ret |-> FALSE, exc |-> NoExc]
    ELSE IF Slice(t, p, p + size) = expected
         THEN [p |-> p + size, ret |-> TRUE, exc |-> NoExc]
         ELSE [p |-> p, ret |-> FALSE, exc |-> NoExc]

\* error(): raises RuntimeError; line_num is the number of '\n' before the pointer
error(t, p) == Exc("RuntimeError", Count(Slice(t, 0, p), "\n"))

scan(t, p, expected) ==
    LET r == try_scan(t, p, expected) IN
    IF r.ret THEN [p |-> r.p, ret |-> None, exc |-> NoExc]
    ELSE [p |-> p, ret |-> None, exc |-> error(t, p)]

RECURSIVE scan_until(_, _, _)
scan_until(t, p, end) ==
    IF eof(t, p) THEN [p |-> p, ret |-> <<>>, exc |-> NoExc]
    ELSE LET r == try_scan(t, p, end) IN
         IF r.ret THEN [p |-> r.p, ret |-> end, exc |-> NoExc]
         ELSE LET rest == scan_until(t, p + 1, end) IN
              [p |-> rest.p, ret |-> <<t[p + 1]>> \o rest.ret, exc |-> NoExc]

\* The while loop ends without a return statement when the end of the text is
\* reached: the call then returns None.
RECURSIVE scan_identifier(_, _, _)
scan_identifier(t, p, chars) ==
    IF eof(t, p) THEN [p |-> p, ret |-> None, exc |-> NoExc]
    ELSE IF t[p + 1] \in chars
         THEN LET rest == scan_identifier(t, p + 1, chars) IN
              [p |-> rest.p,
               ret |-> IF rest.ret = None THEN None ELSE <<t[p + 1]>> \o rest.ret,
               exc |-> NoExc]
         ELSE [p |-> p, ret |-> <<>>, exc |-> NoExc]

\* scan_type's loop over '[' (lines 84-86)
RECURSIVE scan_array_levels(_, _)
scan_array_levels(t, p) ==
    LET n == next(t, p) IN
    IF n.exc # NoExc THEN [p |-> p, ret |-> <<>>, exc |-> n.exc]
    ELSE IF n.ret = "["
         THEN LET rest == scan_array_levels(t, p + 1) IN
              [p |-> rest.p, ret |-> <<"[">> \o rest.ret, exc |-> rest.exc]
         ELSE [p |-> p, ret |-> <<>>, exc |-> NoExc]

scan_type(t, p) ==
    LET a == scan_array_levels(t, p) IN
    IF a.exc # NoExc THEN [p |-> a.p, ret |-> None, exc |-> a.exc]
    ELSE IF t[a.p + 1] = "L"
         THEN LET u == scan_until(t, a.p, <<";">>) IN
              [p |-> u.p, ret |-> a.ret \o u.ret, exc |-> NoExc]
         ELSE [p |-> a.p + 1, ret |-> a.ret \o <<t[a.p + 1]>>, exc |-> NoExc]

\* scan_java_method_signature's loop over the parameter types (lines 74-76)
RECURSIVE scan_params(_, _)
scan_params(t, p) ==
    LET n == next(t, p) IN
    IF n.exc # NoExc THEN [p |-> p, ret |-> <<>>, exc |-> n.exc, params |-> 0]
    ELSE IF n.ret # ")"
         THEN LET ty == scan_type(t, p) IN
              IF ty.exc # NoExc
              THEN [p |-> ty.p, ret |-> <<>>, exc |-> ty.exc, params |-> 0]
              ELSE LET rest == scan_params(t, ty.p) IN
                   [p |-> rest.p, ret |-> ty.ret \o rest.ret, exc |-> rest.exc,
                    params |-> rest.params + 1]
         ELSE [p |-> p, ret |-> <<>>, exc |-> NoExc, params |-> 0]

scan_java_method_signature(t, p) ==
    LET open == scan(t, p, <<"(">>) IN
    IF open.exc # NoExc THEN [p |-> open.p, ret |-> None, exc |-> open.exc]
    ELSE LET ps == scan_params(t, open.p) IN
         IF ps.exc # NoExc THEN [p |-> ps.p, ret |-> None, exc |-> ps.exc]
         ELSE LET close == scan(t, ps.p, <<")">>) IN
              LET rt == scan_type(t, close.p) IN
              IF rt.exc # NoExc THEN [p |-> rt.p, ret |-> None, exc |-> rt.exc]
              ELSE [p |-> rt.p,
                    ret |-> << <<"(">> \o ps.ret \o <<")">> \o rt.ret, ps.params >>,
                    exc |-> NoExc]

----------------------------------------------------------------------------
(* AbstractParser: the type descriptor codec *)

\* the loop of lines 105-107: [] pairs stripped from the end, one '[' each
RECURSIVE strip_arrays(_)
strip_arrays(name) ==
    IF Len(name) > 2 /\ SubSeq(name, Len(name) - 1, Len(name)) = <<"[", "]">>
    THEN LET r == strip_arrays(SubSeq(name, 1, Len(name) - 2)) IN
         [name |-> r.name, desc |-> <<"[">> \o r.desc]
    ELSE [name |-> name, desc |-> <<>>]

convert_type_to_descriptor(name, remap) ==
    LET s == strip_arrays(name) IN
    IF HasKey(FIELD_DESCRIPTOR_NAMES, s.name)
    THEN s.desc \o Get(FIELD_DESCRIPTOR_NAMES, s.name)
    ELSE LET n == IF HasKey(remap, s.name) THEN Get(remap, s.name) ELSE s.name IN
         s.desc \o <<"L">> \o n \o <<";">>

\* the loop of lines 121-122
RECURSIVE strip_brackets(_)
strip_brackets(name) ==
    IF name # <<>> /\ Head(name) = "[" THEN strip_brackets(Tail(name)) ELSE name

\* yields the returned name, or the ValueError raised
convert_descriptor_to_type(desc, remap) ==
    LET name == strip_brackets(desc) IN
    IF HasKey(FIELD_DESCRIPTOR_NAMES_INVERSE, name)
    THEN [ret |-> Get(FIELD_DESCRIPTOR_NAMES_INVERSE, name), exc |-> NoExc]
    ELSE IF name # <<>> /\ Head(name) = "L" /\ name[Len(name)] = ";"
         THEN LET n == SubSeq(name, 2, Len(name) - 1) IN
              [ret |-> IF HasKey(remap, n) THEN Get(remap, n) ELSE n, exc |-> NoExc]
         ELSE [ret |-> None, exc |-> Exc("ValueError", 0)]

----------------------------------------------------------------------------
(* Documents: the inputs of parse_official, line by line *)

Ty(base, dims) == [base |-> base, dims |-> dims]

TyInt == Ty(<<"i","n","t">>, 0)

TyVoid == Ty(<<"v","o","i","d">>, 0)

S_clinit == <<"<","c","l","i","n","i","t",">">>

S_init == <<"<","i","n","i","t",">">>

Line(kind, prefix, type, name, method, params, obf) ==
    [kind |-> kind, prefix |-> prefix, type |-> type, name |-> name,
     method |-> method, params |-> params, obf |-> obf]

\* "#x"
CommentLine == Line("comment", <<>>, TyVoid, <<"x">>, FALSE, <<>>, <<>>)

\* "a.B -> c:" and "D -> e:"
ClassLines ==
    { Line("class", <<>>, TyVoid, <<"a",".","B">>, FALSE, <<>>, <<"c">>),
      Line("class", <<>>, TyVoid, <<"D">>, FALSE, <<>>, <<"e">>) }

\* "    int x -> f", "    1:2:int x -> f", "    a.B m(int,D[]) -> g",
\* "    12:15:a.B m(int,D[]) -> g", "    void <clinit>() -> <clinit>",
\* "    void <init>(D) -> <init>"
MemberLines ==
    { Line("member", <<>>, TyInt, <<"x">>, FALSE, <<>>, <<"f">>),
      Line("member", <<"1",":","2",":">>, TyInt, <<"x">>, FALSE, <<>>, <<"f">>),
      Line("member", <<>>, Ty(<<"a",".","B">>, 0), <<"m">>, TRUE,
           <<TyInt, Ty(<<"D">>, 1)>>, <<"g">>),
      Line("member", <<"1","2",":","1","5",":">>, Ty(<<"a",".","B">>, 0), <<"m">>, TRUE,
           <<TyInt, Ty(<<"D">>, 1)>>, <<"g">>),
      Line("member", <<>>, TyVoid, S_clinit, TRUE, <<>>, S_clinit),
      Line("member", <<>>, TyVoid, S_init, TRUE, <<Ty(<<"D">>, 0)>>, S_init) }

Lines == {CommentLine} \cup ClassLines \cup MemberLines

\* the grammar: comment lines first, then class blocks, each a header and its members
WellFormed(d) ==
    \A i \in 1..Len(d) :
        /\ d[i].kind = "comment" => \A j \in 1..(i - 1) : d[j].kind = "comment"
        /\ d[i].kind = "member" => i > 1 /\ d[i - 1].kind \in {"class", "member"}

Docs == {d \in UNION {[1..n -> Lines] : n \in 0..MaxLines} : WellFormed(d)}

RenderType(ty) == ty.base \o Repeat(<<"[", "]">>, ty.dims)

RECURSIVE RenderParams(_)
RenderParams(ps) ==
    IF ps = <<>> THEN <<>>
    ELSE IF Len(ps) = 1 THEN RenderType(ps[1])
    ELSE RenderType(ps[1]) \o <<",">> \o RenderParams(Tail(ps))

ARROW == <<" ", "-", ">", " ">>

INDENT == <<" ", " ", " ", " ">>

RenderLine(l) ==
    IF l.kind = "comment" THEN <<"#">> \o l.name \o <<"\n">>
    ELSE IF l.kind = "class" THEN l.name \o ARROW \o l.obf \o <<":", "\n">>
    ELSE INDENT \o l.prefix \o RenderType(l.type) \o <<" ">> \o l.name
         \o (IF l.method THEN <<"(">> \o RenderParams(l.params) \o <<")">> ELSE <<>>)
         \o ARROW \o l.obf \o <<"\n">>

Render(d) == Concat([i \in 1..Len(d) |-> RenderLine(d[i])])

\* the same document with every line-number prefix taken out
Unprefixed(d) == [i \in 1..Len(d) |-> [d[i] EXCEPT !.prefix = <<>>]]

----------------------------------------------------------------------------
(* parse_official, as steps on the record of its parser and local variables *)

Start ==
    [pointer |-> 0, pc |-> "header", classes |-> <<>>, fields |-> <<>>,
     temp_methods |-> <<>>, methods |-> <<>>, outcome |-> NoExc, notch_class |-> <<>>]

Failed(s, p, exc) == [s EXCEPT !.pointer = p, !.pc = "failed", !.outcome = exc]

\* parser.scan_identifier().replace('.', '/'): AttributeError on None
scan_name(t, p) ==
    LET r == scan_identifier(t, p, IDENTIFIER_CHARS) IN
    IF r.ret = None THEN [p |-> r.p, ret |-> None, exc |-> Exc("AttributeError", 0)]
    ELSE [p |-> r.p, ret |-> ReplaceDots(r.ret), exc |-> NoExc]

\* lines 31-32: one turn of the loop over comment lines
skip_comment(t, s) ==
    LET h == try_scan(t, s.pointer, <<"#">>) IN
    [s EXCEPT !.pointer = scan_until(t, h.p, <<"\n">>).p]

\* class_declaration that records the class under its readable name
class_declaration_by_readable_name(t, s) ==
    LET mojmap_class == scan_name(t, s.pointer) IN
    IF mojmap_class.exc # NoExc THEN Failed(s, mojmap_class.p, mojmap_class.exc) ELSE
    LET arrow == scan(t, mojmap_class.p, ARROW) IN
    IF arrow.exc # NoExc THEN Failed(s, arrow.p, arrow.exc) ELSE
    LET notch == scan_name(t, arrow.p) IN
    IF notch.exc # NoExc THEN Failed(s, notch.p, notch.exc) ELSE
    LET colon == scan(t, notch.p, <<":", "\n">>) IN
    IF colon.exc # NoExc THEN Failed(s, colon.p, colon.exc) ELSE
    [s EXCEPT !.pointer = colon.p, !.pc = "member", !.notch_class = notch.ret,
              !.classes = Put(s.classes, mojmap_class.ret, notch.ret)]

\* lines 36-41: a class header; the class is recorded
class_declaration(t, s) ==
    LET mojmap_class == scan_name(t, s.pointer) IN
    IF mojmap_class.exc # NoExc THEN Failed(s, mojmap_class.p, mojmap_class.exc) ELSE
    LET arrow == scan(t, mojmap_class.p, ARROW) IN
    IF arrow.exc # NoExc THEN Failed(s, arrow.p, arrow.exc) ELSE
    LET notch == scan_name(t, arrow.p) IN
    IF notch.exc # NoExc THEN Failed(s, notch.p, notch.exc) ELSE
    LET colon == scan(t, notch.p, <<":", "\n">>) IN
    IF colon.exc # NoExc THEN Failed(s, colon.p, colon.exc) ELSE
    [s EXCEPT !.pointer = colon.p, !.pc = "member", !.notch_class = notch.ret,
              !.classes = Put(s.classes, notch.ret, mojmap_class.ret)]

\* skip_line_numbers that scans up to one colon only
skip_line_numbers_once(t, p) ==
    LET n == next(t, p) IN
    IF n.exc # NoExc THEN [p |-> p, exc |-> n.exc]
    ELSE IF n.ret \in NUMERIC_CHARS
         THEN [p |-> scan_until(t, p, <<":">>).p, exc |-> NoExc]
         ELSE [p |-> p, exc |-> NoExc]

\* lines 45-48: the line numbers of a member line are scanned and dropped
skip_line_numbers(t, p) ==
    LET n == next(t, p) IN
    IF n.exc # NoExc THEN [p |-> p, exc |-> n.exc]
    ELSE IF n.ret \in NUMERIC_CHARS
         THEN [p |-> scan_until(t, scan_until(t, p, <<":">>).p, <<":">>).p, exc |-> NoExc]
         ELSE [p |-> p, exc |-> NoExc]

\* record_member that stages static initializers too
record_member_with_clinit(s, member_type, mojmap_member, notch_member) ==
    IF mojmap_member # <<>> /\ mojmap_member[Len(mojmap_member)] = ")"
    THEN LET parts == Split(mojmap_member, "(") IN
         IF Len(parts) # 2 THEN [s EXCEPT !.pc = "failed", !.outcome = Exc("ValueError", 0)]
         ELSE LET inner == SubSeq(parts[2], 1, Len(parts[2]) - 1)
                  split == Split(inner, ",")
                  params == IF split = << <<>> >> THEN <<>> ELSE split
              IN  [s EXCEPT !.temp_methods =
                       Put(s.temp_methods,
                           <<s.notch_class, notch_member, member_type, params>>,
                           parts[1])]
    ELSE [s EXCEPT !.fields = Put(s.fields, <<s.notch_class, notch_member>>, mojmap_member)]

\* lines 57-72: the member is staged as a method or recorded as a field
record_member(s, member_type, mojmap_member, notch_member) ==
    IF mojmap_member # <<>> /\ mojmap_member[Len(mojmap_member)] = ")"
    THEN LET parts == Split(mojmap_member, "(") IN
         IF Len(parts) # 2 THEN [s EXCEPT !.pc = "failed", !.outcome = Exc("ValueError", 0)]
         ELSE LET inner == SubSeq(parts[2], 1, Len(parts[2]) - 1)
                  split == Split(inner, ",")
                  params == IF split = << <<>> >> THEN <<>> ELSE split
              IN  IF notch_member # S_clinit
                  THEN [s EXCEPT !.temp_methods =
                            Put(s.temp_methods,
                                <<s.notch_class, notch_member, member_type, params>>,
                                parts[1])]
                  ELSE s
    ELSE [s EXCEPT !.fields = Put(s.fields, <<s.notch_class, notch_member>>, mojmap_member)]

\* lines 44-72: one turn of the loop over the members of a class
member_line(t, s) ==
    LET indent == try_scan(t, s.pointer, INDENT) IN
    LET nums == skip_line_numbers(t, indent.p) IN
    IF nums.exc # NoExc THEN Failed(s, nums.p, nums.exc) ELSE
    LET member_type == scan_name(t, nums.p) IN
    IF member_type.exc # NoExc THEN Failed(s, member_type.p, member_type.exc) ELSE
    LET space == scan(t, member_type.p, <<" ">>) IN
    IF space.exc # NoExc THEN Failed(s, space.p, space.exc) ELSE
    LET mojmap_member == scan_name(t, space.p) IN
    IF mojmap_member.exc # NoExc THEN Failed(s, mojmap_member.p, mojmap_member.exc) ELSE
    LET arrow == scan(t, mojmap_member.p, ARROW) IN
    IF arrow.exc # NoExc THEN Failed(s, arrow.p, arrow.exc) ELSE
    LET notch_member == scan_name(t, arrow.p) IN
    IF notch_member.exc # NoExc THEN Failed(s, notch_member.p, notch_member.exc) ELSE
    LET nl == scan(t, notch_member.p, <<"\n">>) IN
    IF nl.exc # NoExc THEN Failed(s, nl.p, nl.exc) ELSE
    record_member([s EXCEPT !.pointer = nl.p],
                  member_type.ret, mojmap_member.ret, notch_member.ret)

\* lines 76-83: the descriptors of the staged methods, in the order they were staged
RECURSIVE resolve_methods(_, _)
resolve_methods(staged, mojmap_to_notch_classes) ==
    IF staged = <<>> THEN <<>>
    ELSE LET n == Len(staged)
             key == staged[n][1]
             return_desc == convert_type_to_descriptor(key[3], mojmap_to_notch_classes)
             params_desc == [i \in 1..Len(key[4]) |->
                 convert_type_to_descriptor(key[4][i], mojmap_to_notch_classes)]
             method_desc == <<"(">> \o Concat(params_desc) \o <<")">> \o return_desc
         IN  Put(resolve_methods(SubSeq(staged, 1, n - 1), mojmap_to_notch_classes),
                 <<key[1], key[2], method_desc>>, staged[n][2])

\* resolve that looks the readable names up in the table it was given, not its inverse
resolve_without_inverse(s) ==
    [s EXCEPT !.pc = "done", !.methods = resolve_methods(s.temp_methods, s.classes)]

\* lines 74-85: the second pass, and the return
resolve(s) ==
    LET mojmap_to_notch_classes ==
            DictOf([i \in 1..Len(s.classes) |-> <<s.classes[i][2], s.classes[i][1]>>])
    IN  [s EXCEPT !.pc = "done",
                  !.methods = resolve_methods(s.temp_methods, mojmap_to_notch_classes)]

\* which step parse_official takes next
StepKind(t, s) ==
    IF s.pc \in {"done", "failed"} THEN "stop"
    ELSE IF s.pc = "header" /\ try_scan(t, s.pointer, <<"#">>).ret THEN "comment"
    ELSE IF s.pc = "member" /\ try_scan(t, s.pointer, INDENT).ret THEN "member"
    ELSE IF eof(t, s.pointer) THEN "resolve"
    ELSE "class"

Step(t, s) ==
    CASE StepKind(t, s) = "comment" -> skip_comment(t, s)
      [] StepKind(t, s) = "class" -> class_declaration(t, s)
      [] StepKind(t, s) = "member" -> member_line(t, s)
      [] StepKind(t, s) = "resolve" -> resolve(s)
      [] OTHER -> s

RECURSIVE Run(_, _)
Run(t, s) == IF StepKind(t, s) = "stop" THEN s ELSE Run(t, Step(t, s))

\* parse_official(text): s.pc = "done" with the SourceMap, or "failed" with the exception
parse_official(t) == Run(t, Start)

----------------------------------------------------------------------------
(* The state machine of one call of parse_official *)

State ==
    [pointer |-> pointer, pc |-> pc, classes |-> classes, fields |-> fields,
     temp_methods |-> temp_methods, methods |-> methods, outcome |-> outcome,
     notch_class |-> notch_class]

Install(s) ==
    /\ pointer' = s.pointer
    /\ pc' = s.pc
    /\ classes' = s.classes
    /\ fields' = s.fields
    /\ temp_methods' = s.temp_methods
    /\ methods' = s.methods
    /\ outcome' = s.outcome
    /\ notch_class' = s.notch_class

NoCall == [op |-> "none", arg |-> <<>>, p0 |-> 0]

EmptyMap == [classes |-> <<>>, fields |-> <<>>, methods |-> <<>>]

\* the variables of validate_official, while it is not running
ValidateIdle == client = EmptyMap /\ server = EmptyMap /\ verdict = "none"

\* the tables and locals of parse_official, while it is not running
ParseIdle ==
    /\ doc = <<>> /\ classes = <<>> /\ fields = <<>> /\ temp_methods = <<>>
    /\ methods = <<>> /\ notch_class = <<>>

Idle == call = NoCall /\ ret = None /\ identifier = <<>> /\ ValidateIdle

InitParse(t) ==
    /\ text = t
    /\ pointer = Start.pointer /\ pc = Start.pc /\ classes = Start.classes
    /\ fields = Start.fields /\ temp_methods = Start.temp_methods
    /\ methods = Start.methods /\ outcome = Start.outcome
    /\ notch_class = Start.notch_class
    /\ Idle

Init == \E d \in Docs : doc = d /\ InitParse(Render(d))

Others == UNCHANGED <<text, doc, call, ret, identifier, client, server, verdict>>

SkipComment == StepKind(text, State) = "comment" /\ Install(skip_comment(text, State)) /\ Others

ClassDeclaration == StepKind(text, State) = "class" /\ Install(class_declaration(text, State)) /\ Others

MemberLine == StepKind(text, State) = "member" /\ Install(member_line(text, State)) /\ Others

Resolve == StepKind(text, State) = "resolve" /\ Install(resolve(State)) /\ Others

Next == SkipComment \/ ClassDeclaration \/ MemberLine \/ Resolve

Spec == Init /\ [][Next]_vars

\* the same, on documents cut short: up to MaxDrop characters are missing at the end
Truncations(t) == {SubSeq(t, 1, n) : n \in Max(0, Len(t) - MaxDrop)..Len(t)}

InitTruncated == \E d \in Docs : doc = d /\ \E t \in Truncations(Render(d)) : InitParse(t)

SpecTruncated == InitTruncated /\ [][Next]_vars

----------------------------------------------------------------------------
(* The scanner on its own: any sequence of calls on one AbstractParser *)

Alphabet == {"L", "[", ";", "(", ")", " "}

Texts == UNION {[1..n -> Alphabet] : n \in 0..MaxLen}

Literals == { <<"(">>, <<" ">>, <<"L", ";">> }

Delimiters == { <<";">>, <<"L", ";">>, <<";", ";">> }

Charsets == { IDENTIFIER_CHARS, NUMERIC_CHARS, {"L", "["} }

InitScanner ==
    /\ text \in Texts
    /\ pointer = 0
    /\ pc = "idle" /\ outcome = NoExc
    /\ call = NoCall /\ ret = None /\ identifier = <<>>
    /\ ParseIdle /\ ValidateIdle

\* the call `op(arg)` with result r: the pointer, the returned value, the exception
Called(op, arg, r) ==
    /\ call' = [op |-> op, arg |-> arg, p0 |-> pointer]
    /\ pointer' = r.p
    /\ ret' = r.ret
    /\ outcome' = r.exc
    /\ UNCHANGED <<text, pc, doc, classes, fields, temp_methods, methods,
                   identifier, notch_class, client, server, verdict>>

CallEof ==
    Called("eof", <<>>, [p |-> pointer, ret |-> eof(text, pointer), exc |-> NoExc])

CallNext == Called("next", <<>>, next(text, pointer))

CallTryScan == \E expected \in Literals : Called("try_scan", expected, try_scan(text, pointer, expected))

CallScan == \E expected \in Literals : Called("scan", expected, scan(text, pointer, expected))

CallScanUntil == \E end \in Delimiters : Called("scan_until", end, scan_until(text, pointer, end))

CallScanIdentifier ==
    \E chars \in Charsets : Called("scan_identifier", chars, scan_identifier(text, pointer, chars))

CallScanType == Called("scan_type", <<>>, scan_type(text, pointer))

CallScanJavaMethodSignature ==
    Called("scan_java_method_signature", <<>>, scan_java_method_signature(text, pointer))

NextScanner ==
    \/ CallEof
    \/ CallNext
    \/ CallTryScan
    \/ CallScan
    \/ CallScanUntil
    \/ CallScanIdentifier
    \/ CallScanType
    \/ CallScanJavaMethodSignature

SpecScanner == InitScanner /\ [][NextScanner]_vars

----------------------------------------------------------------------------
(* scan_until, one turn of its loop at a time *)

\* scan_until_turn that leaves the delimiter out of what it returns
scan_until_turn_without_end(t, p, ident, end) ==
    LET r == try_scan(t, p, end) IN
    IF r.ret THEN [p |-> r.p, identifier |-> ident, break |-> TRUE]
    ELSE [p |-> p + 1, identifier |-> ident \o <<next(t, p).ret>>, break |-> FALSE]

\* lines 37-41: one turn of the loop, entered when eof() is false
scan_until_turn(t, p, ident, end) ==
    LET r == try_scan(t, p, end) IN
    IF r.ret THEN [p |-> r.p, identifier |-> ident \o end, break |-> TRUE]
    ELSE [p |-> p + 1, identifier |-> ident \o <<next(t, p).ret>>, break |-> FALSE]

InitScanUntil ==
    /\ text \in Texts
    /\ pointer \in 0..Len(text)
    /\ \E end \in Delimiters : call = [op |-> "scan_until", arg |-> end, p0 |-> pointer]
    /\ pc = "loop" /\ identifier = <<>> /\ ret = None /\ outcome = NoExc
    /\ ParseIdle /\ ValidateIdle

ScanUntilTurn ==
    /\ pc = "loop" /\ ~eof(text, pointer)
    /\ LET r == scan_until_turn(text, pointer, identifier, call.arg) IN
        /\ pointer' = r.p
        /\ identifier' = r.identifier
        /\ pc' = IF r.break THEN "return" ELSE "loop"
    /\ UNCHANGED <<text, doc, classes, fields, temp_methods, methods, outcome, call,
                   ret, notch_class, client, server, verdict>>

\* line 42
ScanUntilReturn ==
    /\ pc = "return" \/ (pc = "loop" /\ eof(text, pointer))
    /\ ret' = identifier
    /\ pc' = "done"
    /\ UNCHANGED <<text, pointer, doc, classes, fields, temp_methods, methods, outcome,
                   call, identifier, notch_class, client, server, verdict>>

NextScanUntil == ScanUntilTurn \/ ScanUntilReturn

\* a running call takes its next step
SpecScanUntil == InitScanUntil /\ [][NextScanUntil]_vars /\ WF_vars(NextScanUntil)

----------------------------------------------------------------------------
(* The codec: a type name converted to a descriptor and back *)

Primitives == {FIELD_DESCRIPTOR_NAMES[i][1] : i \in 1..Len(FIELD_DESCRIPTOR_NAMES)}

ObjectNames == { <<"a", ".", "B">>, <<"a", "/", "B">>, <<"D">>, <<"I">> }

TypeNames == {RenderType(Ty(b, n)) : b \in Primitives \cup ObjectNames, n \in 0..MaxDims}

\* the identity map on the object names, and the empty map
IdentityMaps ==
    { <<>>,
      << << <<"a", ".", "B">>, <<"a", ".", "B">> >>, << <<"a", "/", "B">>, <<"a", "/", "B">> >>,
         << <<"D">>, <<"D">> >>, << <<"I">>, <<"I">> >> >> }

InitCodec ==
    /\ text \in TypeNames
    /\ classes \in IdentityMaps
    /\ pc = "name" /\ pointer = 0 /\ outcome = NoExc
    /\ call = NoCall /\ ret = None /\ identifier = <<>>
    /\ doc = <<>> /\ fields = <<>> /\ temp_methods = <<>> /\ methods = <<>>
    /\ notch_class = <<>> /\ ValidateIdle

CodecOthers ==
    UNCHANGED <<text, pointer, doc, classes, fields, temp_methods, methods,
                identifier, notch_class, client, server, verdict>>

ToDescriptor ==
    /\ pc = "name"
    /\ call' = [op |-> "convert_type_to_descriptor", arg |-> text, p0 |-> 0]
    /\ ret' = convert_type_to_descriptor(text, classes)
    /\ outcome' = NoExc
    /\ pc' = "descriptor"
    /\ CodecOthers

ToType ==
    /\ pc = "descriptor"
    /\ call' = [op |-> "convert_descriptor_to_type", arg |-> ret, p0 |-> 0]
    /\ LET r == convert_descriptor_to_type(ret, classes) IN
        /\ ret' = r.ret
        /\ outcome' = r.exc
    /\ pc' = "type"
    /\ CodecOthers

NextCodec == ToDescriptor \/ ToType

SpecCodec == InitCodec /\ [][NextCodec]_vars

----------------------------------------------------------------------------
(* validate_official on two parsed SourceMaps *)

\* SourceMap.keys(): the keys of the three mappings, each in its own category
SourceMap_keys(m) ==
    [classes |-> Keys(m.classes), fields |-> Keys(m.fields), methods |-> Keys(m.methods)]

\* compare_to: the keys only the left side holds, and those only the right side holds
compare_to(left, right) ==
    [left_only |-> [classes |-> left.classes \ right.classes,
                    fields |-> left.fields \ right.fields,
                    methods |-> left.methods \ right.methods],
     right_only |-> [classes |-> right.classes \ left.classes,
                     fields |-> right.fields \ left.fields,
                     methods |-> right.methods \ left.methods]]

is_empty(ks) == ks.classes = {} /\ ks.fields = {} /\ ks.methods = {}

\* validate_official that asserts on the keys only the client holds
validate_official_left_only(c, s) ==
    LET official_client_v_server == compare_to(SourceMap_keys(c), SourceMap_keys(s)) IN
    IF is_empty(official_client_v_server.left_only) THEN "ok" ELSE "AssertionError"

\* lines 94-95: "ok", or the AssertionError of the assert statement
validate_official(c, s) ==
    LET official_client_v_server == compare_to(SourceMap_keys(c), SourceMap_keys(s)) IN
    IF is_empty(official_client_v_server.right_only) THEN "ok" ELSE "AssertionError"

\* the entries d[i] for i in mask, in order
Select(d, mask) ==
    LET F[i \in 0..Len(d)] ==
            IF i = 0 THEN <<>>
            ELSE IF i \in mask THEN Append(F[i - 1], d[i]) ELSE F[i - 1]
    IN  F[Len(d)]

\* a SourceMap as parse_official builds it: two classes, their fields and methods
FullMap ==
    [classes |-> << << <<"c">>, <<"a","/","B">> >>, << <<"e">>, <<"D">> >> >>,
     fields |-> << << << <<"c">>, <<"f">> >>, <<"x">> >>,
                   << << <<"e">>, <<"f">> >>, <<"x">> >> >>,
     methods |-> << << << <<"c">>, <<"g">>, <<"(","I","[","L","e",";",")","L","c",";">> >>,
                       <<"m">> >>,
                    << << <<"e">>, S_init, <<"(","L","e",";",")","V">> >>, S_init >> >>]

\* the SourceMaps holding some of FullMap's entries
SourceMaps ==
    { [classes |-> Select(FullMap.classes, cm), fields |-> Select(FullMap.fields, fm),
       methods |-> Select(FullMap.methods, mm)] :
        cm \in SUBSET (1..Len(FullMap.classes)), fm \in SUBSET (1..Len(FullMap.fields)),
        mm \in SUBSET (1..Len(FullMap.methods)) }

InitValidate ==
    /\ client \in SourceMaps
    /\ server \in SourceMaps
    /\ verdict = "none"
    /\ text = <<>> /\ pointer = 0 /\ pc = "idle" /\ outcome = NoExc
    /\ call = NoCall /\ ret = None /\ identifier = <<>>
    /\ ParseIdle

Validate ==
    /\ verdict = "none"
    /\ verdict' = validate_official(client, server)
    /\ UNCHANGED <<text, pointer, pc, doc, classes, fields, temp_methods, methods, outcome,
                   call, ret, identifier, notch_class, client, server>>

NextValidate == Validate

SpecValidate == InitValidate /\ [][NextValidate]_vars

----------------------------------------------------------------------------
(* What the claims speak of, read off the document rather than the parser *)

IsMethodLine(l) == l.kind = "member" /\ l.method

\* the obfuscated name of the class whose block line i of d belongs to
RECURSIVE ClassOf(_, _)
ClassOf(d, i) == IF d[i].kind = "class" THEN ReplaceDots(d[i].obf) ELSE ClassOf(d, i - 1)

\* the readable class names d declares, with '/' for '.'
Declared(d) == {ReplaceDots(d[i].name) : i \in {j \in 1..Len(d) : d[j].kind = "class"}}

ObfuscatedOf(d, readable) ==
    LET i == CHOOSE j \in 1..Len(d) : d[j].kind = "class" /\ ReplaceDots(d[j].name) = readable
    IN  ReplaceDots(d[i].obf)

\* the descriptor of a readable type: '[' per array level, then the primitive's
\* letter, or L<name>; with the obfuscated name of a class the document declares
ExpectedTypeDescriptor(d, ty) ==
    LET base == ReplaceDots(ty.base) IN
    Repeat(<<"[">>, ty.dims) \o
    (IF HasKey(FIELD_DESCRIPTOR_NAMES, base) THEN Get(FIELD_DESCRIPTOR_NAMES, base)
     ELSE <<"L">> \o (IF base \in Declared(d) THEN ObfuscatedOf(d, base) ELSE base) \o <<";">>)

ExpectedMethodDescriptor(d, l) ==
    <<"(">> \o Concat([i \in 1..Len(l.params) |-> ExpectedTypeDescriptor(d, l.params[i])])
    \o <<")">> \o ExpectedTypeDescriptor(d, l.type)

\* the record a method line is staged under
StagedKey(d, i) ==
    << ClassOf(d, i), ReplaceDots(d[i].obf), ReplaceDots(RenderType(d[i].type)),
       [j \in 1..Len(d[i].params) |-> ReplaceDots(RenderType(d[i].params[j]))] >>

SourceMapOf(s) ==
    [classes |-> Items(s.classes), fields |-> Items(s.fields), methods |-> Items(s.methods)]

----------------------------------------------------------------------------
(* C1 *)

\* C1: in every state of a parse of a well-formed document, at its return included,
\* the class of every key of fields, of methods and of the staged method records is
\* a key of classes.
ReferentialCompleteness ==
    /\ \A k \in Keys(fields) : k[1] \in Keys(classes)
    /\ \A k \in Keys(methods) : k[1] \in Keys(classes)
    /\ \A k \in Keys(temp_methods) : k[1] \in Keys(classes)

\* parse_official has returned a SourceMap that holds a field and a method
ReferentialCompletenessReached == pc = "done" /\ fields # <<>> /\ methods # <<>>

----------------------------------------------------------------------------
(* C2 *)

\* C2: when parse_official returns, every method line whose obfuscated name is not
\* <clinit> has the entry (obfClass, obfMethod, D) -> readable method name in methods,
\* D being built from the parameter types in order and the return type, with
\* L<obfuscated name>; for every class the document declares, before or after the line.
TwoPassMethodResolution ==
    pc = "done" =>
        \A i \in 1..Len(doc) :
            IsMethodLine(doc[i]) /\ doc[i].obf # S_clinit =>
                << << ClassOf(doc, i), ReplaceDots(doc[i].obf),
                      ExpectedMethodDescriptor(doc, doc[i]) >>,
                   doc[i].name >> \in Items(methods)

\* a returned parse of a document whose method names a class declared after it
ForwardReferenceResolved ==
    /\ pc = "done"
    /\ \E i, j \in 1..Len(doc) :
        /\ i < j
        /\ IsMethodLine(doc[i]) /\ doc[j].kind = "class"
        /\ \E k \in 1..Len(doc[i].params) : doc[i].params[k].base = doc[j].name

----------------------------------------------------------------------------
(* C4 *)

\* C4: no staged method record and no key of methods has <clinit> as its obfuscated
\* method name, in any state; and when the scan is over every other method line,
\* constructors included, is staged.
NoStaticInitializer ==
    /\ \A k \in Keys(temp_methods) : k[2] # S_clinit
    /\ \A k \in Keys(methods) : k[2] # S_clinit
    /\ pc = "done" =>
        \A i \in 1..Len(doc) :
            IsMethodLine(doc[i]) /\ doc[i].obf # S_clinit =>
                StagedKey(doc, i) \in Keys(temp_methods)

\* a returned parse of a document with a <clinit> line and a constructor line
StaticInitializerDropped ==
    /\ pc = "done"
    /\ \E i, j \in 1..Len(doc) :
        /\ IsMethodLine(doc[i]) /\ doc[i].obf = S_clinit
        /\ IsMethodLine(doc[j]) /\ doc[j].obf = S_init
    /\ Len(temp_methods) = 1

----------------------------------------------------------------------------
(* C7 *)

\* the text t with n characters taken out after position p
Without(t, p, n) == SubSeq(t, 1, p) \o SubSeq(t, p + n + 1, Len(t))

\* the line of doc the pointer is on
CurrentLine == doc[Count(Slice(text, 0, pointer), "\n") + 1]

\* C7: a member line with an N:M: prefix after its indent is read as the same line
\* without the prefix is, the pointer ending at the same place after the line; and
\* the SourceMap returned for a document equals the one returned for the document
\* with its prefixes taken out.
LineNumberPrefixTransparent ==
    /\ StepKind(text, State) = "member" =>
        LET n == Len(CurrentLine.prefix)
            plain == Without(text, pointer + Len(INDENT), n)
            with == member_line(text, State)
            without == member_line(plain, State)
        IN  /\ with.pc = "member" /\ without.pc = "member"
            /\ SourceMapOf(with) = SourceMapOf(without)
            /\ with.temp_methods = without.temp_methods
            /\ Len(text) - with.pointer = Len(plain) - without.pointer
    /\ pc = "done" =>
        LET r == parse_official(Render(Unprefixed(doc))) IN
        /\ r.pc = "done"
        /\ SourceMapOf(r) = SourceMapOf(State)
        /\ pointer = Len(text) /\ r.pointer = Len(Render(Unprefixed(doc)))

\* a returned parse of a document with a prefixed field line and a prefixed method line
PrefixedLinesParsed ==
    /\ pc = "done"
    /\ \E i, j \in 1..Len(doc) :
        /\ doc[i].prefix # <<>> /\ doc[i].method
        /\ doc[j].prefix # <<>> /\ ~doc[j].method
    /\ fields # <<>> /\ methods # <<>>

----------------------------------------------------------------------------
(* C5 *)

\* the text is a document cut inside a class header or a member line
CutMidLine ==
    /\ \A i \in 0..Len(doc) : text # Render(SubSeq(doc, 1, i))
    /\ doc[Count(text, "\n") + 1].kind # "comment"

\* C5: a parse of a document that is not well-formed ends in the scanner's syntax
\* error, the one error() raises, with the number of newlines before the pointer as
\* its line number; it ends in no other failure and returns no SourceMap.
SyntaxErrorsUniform ==
    (pc \in {"done", "failed"} /\ CutMidLine) =>
        /\ pc = "failed"
        /\ outcome = Exc("RuntimeError", Count(Slice(text, 0, pointer), "\n"))

----------------------------------------------------------------------------
(* C8 *)

\* the longest run of characters of chars in t from position p on
RECURSIVE MaximalRun(_, _, _)
MaximalRun(t, p, chars) ==
    IF p < Len(t) /\ t[p + 1] \in chars THEN <<t[p + 1]>> \o MaximalRun(t, p + 1, chars)
    ELSE <<>>

\* C8: scan_identifier returns the maximal run of charset characters from the pointer
\* on and leaves the pointer just past it, also when the run is empty and when it
\* reaches the end of the text.
ScanIdentifierMaximalRun ==
    call.op = "scan_identifier" =>
        /\ ret = MaximalRun(text, call.p0, call.arg)
        /\ pointer = call.p0 + Len(MaximalRun(text, call.p0, call.arg))

----------------------------------------------------------------------------
(* C9 *)

OccursAt(t, i, end) == i + Len(end) <= Len(t) /\ SubSeq(t, i + 1, i + Len(end)) = end

Occurrences(t, p, end) == {i \in p..Len(t) : OccursAt(t, i, end)}

\* where the pointer is left: past the first occurrence, or at the end of the text
ScanUntilStop(t, p, end) ==
    IF Occurrences(t, p, end) = {} THEN Len(t)
    ELSE (CHOOSE i \in Occurrences(t, p, end) : \A j \in Occurrences(t, p, end) : i <= j)
         + Len(end)

\* C9: every call of scan_until returns; it returns the text from the pointer through
\* the first occurrence of the delimiter, the pointer just past it, or the text up to
\* the end of input, the pointer at the end, when the delimiter does not occur.
ScanUntilTerminates ==
    <>(/\ pc = "done"
       /\ pointer = ScanUntilStop(text, call.p0, call.arg)
       /\ ret = SubSeq(text, call.p0 + 1, pointer))

\* scan_until has returned text it read up to the end of input, finding no delimiter
ScanUntilRanToEnd ==
    /\ pc = "done"
    /\ Occurrences(text, call.p0, call.arg) = {}
    /\ ret # <<>> /\ pointer = Len(text)

----------------------------------------------------------------------------
(* C10 *)

\* C10: no scanner call, failing or not, moves the pointer back; try_scan returning
\* false and scan raising leave it where it was; try_scan returning true moves it on
\* by the length of the literal.
CursorMonotone ==
    [][/\ pointer' >= pointer
       /\ (call'.op = "try_scan" /\ ~ret') => pointer' = pointer
       /\ (call'.op = "try_scan" /\ ret') => pointer' = pointer + Len(call'.arg)
       /\ (call'.op = "scan" /\ outcome' # NoExc) => pointer' = pointer]_vars

\* a scan has raised after the pointer had moved on
ScanRaisedMidText == call.op = "scan" /\ outcome.kind = "RuntimeError" /\ pointer > 0

----------------------------------------------------------------------------
(* C3 *)

\* C3: a readable type name, its array suffixes included, comes back from
\* convert_descriptor_to_type(convert_type_to_descriptor(name, id), id) as it was,
\* up to '/' for '.'.
CodecRoundTrip ==
    pc = "type" => outcome = NoExc /\ ReplaceDots(ret) = ReplaceDots(text)

----------------------------------------------------------------------------
(* C6 *)

Subsumed(s, c) ==
    /\ Keys(s.classes) \subseteq Keys(c.classes)
    /\ Keys(s.fields) \subseteq Keys(c.fields)
    /\ Keys(s.methods) \subseteq Keys(c.methods)

\* C6: validate_official succeeds exactly when every key of server, in its category,
\* is a key of client, and fails with an AssertionError otherwise; it changes neither map.
ValidateIsSubsetCheck ==
    [][/\ verdict' = (IF Subsumed(server, client) THEN "ok" ELSE "AssertionError")
       /\ client' = client /\ server' = server]_vars

\* validation succeeded although client holds keys that server lacks
ValidateAllowsClientExtras == verdict = "ok" /\ ~Subsumed(client, server)

====
